---- MODULE Spec2Model ----
(***************************************************************************)
(* Model of template.py: create_files, a one-pass interpreter over a list  *)
(* of file descriptors that resolves each path, creates the parent         *)
(* directories and writes the content, with dry-run and overwrite flags.   *)
(*                                                                         *)
(* The filesystem is a tree of nodes (absent, directory, regular file with *)
(* content).  The outcome of mkdir and write_text is the one the kinds of  *)
(* the nodes determine: mkdir fails when a component of the path is a      *)
(* regular file, write_text fails when the target is a directory or its    *)
(* parent is not a directory.  Permissions, quotas and symbolic links are  *)
(* not part of the model.                                                  *)
(***************************************************************************)
EXTENDS Integers, Sequences, FiniteSets, TLC

\* Longest descriptor list passed to create_files.
MaxFiles == 2
\* Number of create_files calls made one after the other on the same disk.
MaxCalls == 2

VARIABLES fs, files, default_content, dry_run, overwrite, i, created, log,
          pc, calls, fs0, prev

vars == <<fs, files, default_content, dry_run, overwrite, i, created, log,
          pc, calls, fs0, prev>>

(***************************************************************************)
(* Paths.  A path is [abs, parts]; a resolved path is the sequence of its  *)
(* components from the filesystem root, the root being <<>>.               *)
(***************************************************************************)
Rel(parts) == [abs |-> FALSE, parts |-> parts]
Abs(parts) == [abs |-> TRUE, parts |-> parts]

\* base_dir = Path(base_dir)
base_dir == <<"w">>

\* str(None): what str(entry.get("path")) yields for a mapping without 'path'
NonePath == Rel(<<"None">>)

Parent(p) == IF p = <<>> THEN <<>> ELSE SubSeq(p, 1, Len(p) - 1)

\* Path normalisation of resolve(): a ".." component drops the one before it.
RECURSIVE NormParts(_, _)
NormParts(parts, acc) ==
    IF parts = <<>> THEN acc
    ELSE IF Head(parts) = ".."
         THEN NormParts(Tail(parts), Parent(acc))
         ELSE NormParts(Tail(parts), Append(acc, Head(parts)))

\* target = Path(path_str); joined to base_dir unless absolute; .resolve()
Resolve(base, p) ==
    IF ~p.abs THEN NormParts(base \o p.parts, <<>>)
    ELSE NormParts(p.parts, <<>>)

(***************************************************************************)
(* Descriptors: a bare path, a (path, content) pair or list, a mapping.    *)
(* hasPath / hasContent say which elements or keys are present.            *)
(***************************************************************************)
StrEntry(p) ==
    [form |-> "str", hasPath |-> TRUE, hasContent |-> FALSE,
     path |-> p, content |-> ""]
PairEntry(p, c) ==
    [form |-> "pair", hasPath |-> TRUE, hasContent |-> TRUE,
     path |-> p, content |-> c]
ShortPairEntry(p) ==
    [form |-> "pair", hasPath |-> TRUE, hasContent |-> FALSE,
     path |-> p, content |-> ""]
DictEntry(p, c) ==
    [form |-> "dict", hasPath |-> TRUE, hasContent |-> TRUE,
     path |-> p, content |-> c]
DictNoContent(p) ==
    [form |-> "dict", hasPath |-> TRUE, hasContent |-> FALSE,
     path |-> p, content |-> ""]
DictNoPath(c) ==
    [form |-> "dict", hasPath |-> FALSE, hasContent |-> TRUE,
     path |-> Rel(<<>>), content |-> c]

\* The descriptors the calls are made with.
Entries ==
    { StrEntry(Abs(<<"w", "d">>)),
      PairEntry(Rel(<<"d", "b">>), "Y"),
      DictEntry(Rel(<<"a">>), "Z"),
      DictNoContent(Rel(<<"d", "..", "a">>)),
      DictNoPath("Z"),
      ShortPairEntry(Rel(<<"a">>)) }

DefaultContents == {"", "D"}

\* Lines 48-55: path_str and content of an entry; ok = FALSE when indexing
\* the pair raises IndexError.
Normalize(entry, dc) ==
    IF entry.form = "pair"
    THEN IF entry.hasPath /\ entry.hasContent
         THEN [ok |-> TRUE, path |-> entry.path, content |-> entry.content]
         ELSE [ok |-> FALSE, path |-> NonePath, content |-> ""]
    ELSE IF entry.form = "dict"
    THEN [ok |-> TRUE,
          path |-> IF entry.hasPath THEN entry.path ELSE NonePath,
          content |-> IF entry.hasContent THEN entry.content ELSE dc]
    ELSE [ok |-> TRUE, path |-> entry.path, content |-> dc]

(***************************************************************************)
(* The filesystem.                                                         *)
(***************************************************************************)
NoNode == [kind |-> "none", data |-> ""]
DirNode == [kind |-> "dir", data |-> ""]
File(c) == [kind |-> "file", data |-> c]

RECURSIVE Prefixes(_)
Prefixes(p) == IF p = <<>> THEN {} ELSE {p} \cup Prefixes(Parent(p))

\* Every path a descriptor can resolve to, and the directories above it.
Nodes ==
    UNION { Prefixes(Resolve(base_dir, Normalize(e, "").path)) :
            e \in {x \in Entries : Normalize(x, "").ok} }

Kind(f, p) == IF p = <<>> THEN "dir" ELSE f[p].kind

\* Path.exists()
Exists(f, p) == Kind(f, p) # "none"

\* Path.mkdir(parents=True, exist_ok=True)
RECURSIVE Mkdir(_, _)
Mkdir(f, p) ==
    IF Kind(f, p) # "none"
    THEN [ok |-> Kind(f, p) = "dir", fs |-> f]
    ELSE IF Kind(f, Parent(p)) = "dir"
    THEN [ok |-> TRUE, fs |-> [f EXCEPT ![p] = DirNode]]
    ELSE IF Kind(f, Parent(p)) = "file"
    THEN [ok |-> FALSE, fs |-> f]
    ELSE LET r == Mkdir(f, Parent(p))
         IN  IF r.ok THEN [ok |-> TRUE, fs |-> [r.fs EXCEPT ![p] = DirNode]]
             ELSE r

\* EnsureParent with the dry_run test dropped
EnsureParent_always(f, parent, dr) == Mkdir(f, parent)

\* Lines 72-74: the parent is created only when not dry_run.
EnsureParent(f, parent, dr) ==
    IF ~dr THEN Mkdir(f, parent) ELSE [ok |-> TRUE, fs |-> f]

\* SkipExisting that never skips
SkipExisting_never(f, target, ow) == FALSE

\* SkipExisting that skips whatever overwrite says
SkipExisting_ignoresOverwrite(f, target, ow) == Kind(f, target) # "none"

\* SkipExisting with is_file() in place of exists()
SkipExisting_filesOnly(f, target, ow) == Kind(f, target) = "file" /\ ~ow

\* Line 79: target.exists() and not overwrite
SkipExisting(f, target, ow) == Exists(f, target) /\ ~ow

\* write_text that is not reached for empty content
WriteText_skipsEmpty(f, target, content) ==
    IF Kind(f, Parent(target)) # "dir" \/ Kind(f, target) = "dir"
    THEN [ok |-> FALSE, fs |-> f]
    ELSE IF content = "" THEN [ok |-> TRUE, fs |-> f]
    ELSE [ok |-> TRUE, fs |-> [f EXCEPT ![target] = File(content)]]

\* write_text opening the file for exclusive creation
WriteText_exclusive(f, target, content) ==
    IF Kind(f, Parent(target)) # "dir" \/ Kind(f, target) # "none"
    THEN [ok |-> FALSE, fs |-> f]
    ELSE [ok |-> TRUE, fs |-> [f EXCEPT ![target] = File(content)]]

\* Path.write_text(content)
WriteText(f, target, content) ==
    IF Kind(f, Parent(target)) # "dir" \/ Kind(f, target) = "dir"
    THEN [ok |-> FALSE, fs |-> f]
    ELSE [ok |-> TRUE, fs |-> [f EXCEPT ![target] = File(content)]]

WellFormed(f) ==
    \A p \in Nodes : f[p].kind # "none" => Kind(f, Parent(p)) = "dir"

\* The disks a call can start from: base_dir absent or a directory, files
\* holding "old"; nothing is named "None" yet.
InitFS ==
    { f \in [Nodes -> {NoNode, DirNode, File("old")}] :
        /\ WellFormed(f)
        /\ f[base_dir].kind # "file"
        /\ f[Resolve(base_dir, NonePath)] = NoNode }

RECURSIVE SeqsUpTo(_, _)
SeqsUpTo(S, n) ==
    IF n = 0 THEN {<<>>}
    ELSE LET shorter == SeqsUpTo(S, n - 1)
         IN  shorter \cup {Append(s, x) : s \in shorter, x \in S}

NoCall ==
    [state |-> "none", dry_run |-> FALSE, overwrite |-> FALSE,
     created |-> <<>>, log |-> <<>>]

Init ==
    /\ fs \in InitFS
    /\ files \in SeqsUpTo(Entries, MaxFiles)
    /\ default_content \in DefaultContents
    /\ dry_run = FALSE
    /\ overwrite = FALSE
    /\ i = 0
    /\ created = <<>>
    /\ log = <<>>
    /\ pc = "idle"
    /\ calls = 0
    /\ fs0 = fs
    /\ prev = [call |-> NoCall, fs0 |-> fs]

(***************************************************************************)
(* create_files                                                            *)
(***************************************************************************)
ThisCall(state) ==
    [state |-> state, dry_run |-> dry_run, overwrite |-> overwrite,
     created |-> created, log |-> log]

\* Lines 44-45: a call starts; the caller keeps the outcome of the one before.
\* No call follows one that raised: the caller (line 127) does not catch.
Call(dr, ow) ==
    /\ pc = "idle"
    /\ calls < MaxCalls
    /\ calls' = calls + 1
    /\ dry_run' = dr
    /\ overwrite' = ow
    /\ created' = <<>>
    /\ log' = <<>>
    /\ i' = 1
    /\ pc' = "loop"
    /\ fs0' = fs
    /\ prev' = IF calls = 0 THEN prev
               ELSE [call |-> ThisCall("returned"), fs0 |-> fs0]
    /\ UNCHANGED <<fs, files, default_content>>

InLoop == pc = "loop" /\ i <= Len(files)

entry == files[i]
norm == Normalize(entry, default_content)
target == Resolve(base_dir, norm.path)
parent == Parent(target)
\* Lines 66-69
Prepared ==
    Append(log, [msg |-> IF ~dry_run THEN "Preparing" ELSE "DryRun",
                 target |-> target])
Logged(msg) == Append(Prepared, [msg |-> msg, target |-> target])

\* Line 49: entry[0] or entry[1] raises IndexError, which nothing catches.
StepRaise ==
    /\ InLoop
    /\ ~norm.ok
    /\ pc' = "raised"
    /\ UNCHANGED <<fs, files, default_content, dry_run, overwrite, i, created,
                   log, calls, fs0, prev>>

\* StepMkdirFail leaving the loop instead of continuing
StepMkdirFail_aborts ==
    /\ InLoop
    /\ norm.ok
    /\ ~EnsureParent(fs, parent, dry_run).ok
    /\ log' = Logged("MkdirFailed")
    /\ i' = Len(files) + 1
    /\ UNCHANGED <<fs, files, default_content, dry_run, overwrite, created,
                   pc, calls, fs0, prev>>

\* Lines 72-77: mkdir raised; log and continue.
StepMkdirFail ==
    /\ InLoop
    /\ norm.ok
    /\ ~EnsureParent(fs, parent, dry_run).ok
    /\ log' = Logged("MkdirFailed")
    /\ i' = i + 1
    /\ UNCHANGED <<fs, files, default_content, dry_run, overwrite, created,
                   pc, calls, fs0, prev>>

\* Lines 79-81
StepSkip ==
    /\ InLoop
    /\ norm.ok
    /\ LET m == EnsureParent(fs, parent, dry_run)
       IN  /\ m.ok
           /\ SkipExisting(m.fs, target, overwrite)
           /\ fs' = m.fs
    /\ log' = Logged("Skipping")
    /\ i' = i + 1
    /\ UNCHANGED <<files, default_content, dry_run, overwrite, created,
                   pc, calls, fs0, prev>>

\* Lines 83-85
StepDryRun ==
    /\ InLoop
    /\ norm.ok
    /\ LET m == EnsureParent(fs, parent, dry_run)
       IN  /\ m.ok
           /\ ~SkipExisting(m.fs, target, overwrite)
           /\ dry_run
           /\ fs' = m.fs
    /\ created' = Append(created, target)
    /\ log' = Prepared
    /\ i' = i + 1
    /\ UNCHANGED <<files, default_content, dry_run, overwrite,
                   pc, calls, fs0, prev>>

\* Lines 87-91
StepWrite ==
    /\ InLoop
    /\ norm.ok
    /\ LET m == EnsureParent(fs, parent, dry_run)
           w == WriteText(m.fs, target, norm.content)
       IN  /\ m.ok
           /\ ~SkipExisting(m.fs, target, overwrite)
           /\ ~dry_run
           /\ w.ok
           /\ fs' = w.fs
    /\ created' = Append(created, target)
    /\ log' = Logged("Created")
    /\ i' = i + 1
    /\ UNCHANGED <<files, default_content, dry_run, overwrite,
                   pc, calls, fs0, prev>>

\* StepWriteFail with the append placed before write_text
StepWriteFail_appends ==
    /\ InLoop
    /\ norm.ok
    /\ LET m == EnsureParent(fs, parent, dry_run)
           w == WriteText(m.fs, target, norm.content)
       IN  /\ m.ok
           /\ ~SkipExisting(m.fs, target, overwrite)
           /\ ~dry_run
           /\ ~w.ok
           /\ fs' = w.fs
    /\ created' = Append(created, target)
    /\ log' = Logged("WriteFailed")
    /\ i' = i + 1
    /\ UNCHANGED <<files, default_content, dry_run, overwrite,
                   pc, calls, fs0, prev>>

\* Lines 87-93: write_text raised; log, nothing appended.
StepWriteFail ==
    /\ InLoop
    /\ norm.ok
    /\ LET m == EnsureParent(fs, parent, dry_run)
           w == WriteText(m.fs, target, norm.content)
       IN  /\ m.ok
           /\ ~SkipExisting(m.fs, target, overwrite)
           /\ ~dry_run
           /\ ~w.ok
           /\ fs' = w.fs
    /\ log' = Logged("WriteFailed")
    /\ i' = i + 1
    /\ UNCHANGED <<files, default_content, dry_run, overwrite, created,
                   pc, calls, fs0, prev>>

\* Line 95
Return ==
    /\ pc = "loop"
    /\ i > Len(files)
    /\ pc' = "idle"
    /\ UNCHANGED <<fs, files, default_content, dry_run, overwrite, i, created,
                   log, calls, fs0, prev>>

Next ==
    \/ \E dr \in BOOLEAN, ow \in BOOLEAN : Call(dr, ow)
    \/ StepRaise
    \/ StepMkdirFail
    \/ StepSkip
    \/ StepDryRun
    \/ StepWrite
    \/ StepWriteFail
    \/ Return

Spec == Init /\ [][Next]_vars

(***************************************************************************)
(* Vocabulary of the properties.                                           *)
(***************************************************************************)
Idx == 1..Len(files)
\* Resolved target and content of the j-th descriptor.
T(j) == Resolve(base_dir, Normalize(files[j], default_content).path)
Content(j) == Normalize(files[j], default_content).content

Range(s) == {s[k] : k \in 1..Len(s)}
Count(s, x) == Cardinality({k \in 1..Len(s) : s[k] = x})

\* The targets of the descriptors 1..n whose index is in S, in input order.
RECURSIVE TargetsIn(_, _)
TargetsIn(n, S) ==
    IF n = 0 THEN <<>>
    ELSE IF n \in S THEN Append(TargetsIn(n - 1, S), T(n))
         ELSE TargetsIn(n - 1, S)

\* The call has returned its result (every descriptor was processed).
Returned == pc = "idle" /\ calls > 0

\* One outcome line per descriptor of a non-dry-run call.
Outcomes == SelectSeq(log, LAMBDA l : l.msg \notin {"Preparing", "DryRun"})

\* A directory component of t is a regular file on disk f.
Blocked(f, t) == \E a \in Prefixes(Parent(t)) : Kind(f, a) = "file"

\* p is a proper ancestor of q.
Above(p, q) == Len(p) < Len(q) /\ SubSeq(q, 1, Len(p)) = p
Nested(p, q) == Above(p, q) \/ Above(q, p)

TypeOK ==
    /\ fs \in [Nodes -> {NoNode, DirNode} \cup {File(c) : c \in {"old", "", "D", "Y", "Z"}}]
    /\ WellFormed(fs)
    /\ pc \in {"idle", "loop", "raised"}
    /\ calls \in 0..MaxCalls

(***************************************************************************)
(* C1: while a call with dry_run=True runs, no step changes the            *)
(* filesystem: no file is created or modified and no directory is created, *)
(* whatever the descriptors, the disk and overwrite.                       *)
(***************************************************************************)
C1_DryRunLeavesDiskUnchanged ==
    [][(pc = "loop" /\ dry_run) => fs' = fs]_vars

\* A dry run has returned two targets, one of them under a directory that
\* does not exist.
C1_Witness ==
    /\ Returned /\ dry_run
    /\ Len(created) >= 2
    /\ \E k \in 1..Len(created) : ~Exists(fs, Parent(created[k]))

(***************************************************************************)
(* C2: in a non-dry-run call, when a descriptor is processed whose target  *)
(* is a regular file holding "old": with overwrite=False the file is left  *)
(* holding "old" (by this step and by every later step of the call) and    *)
(* the descriptor adds nothing to the result; with overwrite=True the file *)
(* then holds the descriptor's content and the target is appended.         *)
(***************************************************************************)
C2_OverwriteGating ==
    [][ /\ (InLoop /\ ~dry_run /\ norm.ok /\ fs[target] = File("old")) =>
              IF overwrite
              THEN fs'[target] = File(norm.content)
                   /\ created' = Append(created, target)
              ELSE fs'[target] = File("old") /\ created' = created
        /\ (pc = "loop" /\ ~dry_run /\ ~overwrite) =>
              \A n \in Nodes : fs[n].kind = "file" => fs'[n] = fs[n]
      ]_vars

\* A call with overwrite=False skipped a file holding "old"; the next call,
\* with overwrite=True, replaced it.
C2_Witness ==
    /\ Returned /\ ~dry_run /\ overwrite /\ calls >= 2
    /\ prev.call.state = "returned"
    /\ ~prev.call.dry_run /\ ~prev.call.overwrite
    /\ \E j \in Idx :
          /\ prev.fs0[T(j)] = File("old")
          /\ fs0[T(j)] = File("old")
          /\ T(j) \notin Range(prev.call.created)
          /\ T(j) \in Range(created)
          /\ fs[T(j)] = File(Content(j))

(***************************************************************************)
(* C3: a second call right after a returned call with the same             *)
(* descriptors, dry_run=False and overwrite=False writes nothing, leaves   *)
(* every file as the first call left it, and has an empty result.          *)
(***************************************************************************)
C3_SecondCallWritesNothing ==
    ( /\ calls >= 2
      /\ ~dry_run /\ ~overwrite
      /\ prev.call.state = "returned"
      /\ ~prev.call.dry_run /\ ~prev.call.overwrite )
    => /\ pc # "raised"
       /\ created = <<>>
       /\ \A k \in 1..Len(log) : log[k].msg \notin {"Created", "WriteFailed"}
       /\ \A n \in Nodes : fs0[n].kind = "file" => fs[n] = fs0[n]
       /\ \A n \in Nodes : fs[n].kind = "file" => fs0[n].kind = "file"

\* The first call created two files, the second has returned.
C3_Witness ==
    /\ Returned /\ calls >= 2
    /\ ~dry_run /\ ~overwrite
    /\ prev.call.state = "returned"
    /\ ~prev.call.dry_run /\ ~prev.call.overwrite
    /\ Len(prev.call.created) >= 2
    /\ created = <<>>

(***************************************************************************)
(* C4: in a non-dry-run call a descriptor whose parent directory cannot be *)
(* created (a component is a regular file) is passed over: the loop goes   *)
(* on to the next descriptor, nothing is appended or written for it.  When *)
(* the call returns, the result holds no blocked target, only targets of   *)
(* the list, and the target of every other descriptor that can be created  *)
(* (parent not blocked, target absent or overwrite of a regular file, no   *)
(* other target inside or around it), and that target is a file.           *)
(***************************************************************************)
C4_Creatable(j) ==
    /\ ~Blocked(fs0, T(j))
    /\ \/ fs0[T(j)].kind = "none"
       \/ overwrite /\ fs0[T(j)].kind = "file"
    /\ \A k \in Idx : ~Nested(T(k), T(j))

C4_Step ==
    (InLoop /\ ~dry_run /\ norm.ok /\ Blocked(fs, target)) =>
        /\ pc' = "loop"
        /\ i' = i + 1
        /\ created' = created
        /\ fs' = fs

C4_AtReturn ==
    (Returned /\ ~dry_run /\ \E j \in Idx : Blocked(fs0, T(j))) =>
        /\ \A j \in Idx : Blocked(fs0, T(j)) => T(j) \notin Range(created)
        /\ Range(created) \subseteq {T(j) : j \in Idx}
        /\ \A j \in Idx : C4_Creatable(j) =>
              T(j) \in Range(created) /\ fs[T(j)].kind = "file"

C4_FaultIsolation == [][C4_Step]_vars /\ []C4_AtReturn

\* The first descriptor's parent could not be created, a later one was
\* written.
C4_Witness ==
    /\ Returned /\ ~dry_run
    /\ Len(files) >= 2
    /\ Blocked(fs0, T(1))
    /\ Outcomes[1].msg = "MkdirFailed"
    /\ \E j \in Idx : j > 1 /\ C4_Creatable(j) /\ T(j) \in Range(created)

(***************************************************************************)
(* C5 as stated: after a non-dry-run call on a disk where no target exists *)
(* and all targets are distinct, every target is a file holding exactly    *)
(* its descriptor's content.                                               *)
(***************************************************************************)
C5_Fresh ==
    /\ Returned /\ ~dry_run
    /\ \A j \in Idx : fs0[T(j)].kind = "none"
    /\ \A j, k \in Idx : j # k => T(j) # T(k)

C5_AsStated ==
    C5_Fresh => \A j \in Idx : fs[T(j)] = File(Content(j))

(***************************************************************************)
(* C5 amended: the same, provided also that no directory component of a    *)
(* target is a regular file beforehand and no target lies inside another   *)
(* descriptor's target; then every target is a file holding exactly its    *)
(* descriptor's content (the empty string included) under a parent that is *)
(* a directory.                                                            *)
(***************************************************************************)
C5_ContentFidelity ==
    ( /\ C5_Fresh
      /\ \A j \in Idx : ~Blocked(fs0, T(j))
      /\ \A j, k \in Idx : ~Above(T(j), T(k)) )
    => \A j \in Idx :
          /\ fs[T(j)] = File(Content(j))
          /\ Kind(fs, Parent(T(j))) = "dir"

\* Two files were created: an empty one, and one under a directory that did
\* not exist.
C5_Witness ==
    /\ C5_Fresh
    /\ \A j \in Idx : ~Blocked(fs0, T(j))
    /\ \A j, k \in Idx : ~Above(T(j), T(k))
    /\ \E j, k \in Idx :
          /\ Content(j) = "" /\ fs[T(j)] = File("")
          /\ Kind(fs0, Parent(T(k))) = "none" /\ fs[T(k)] = File(Content(k))
          /\ Content(k) # ""

(***************************************************************************)
(* C6 as stated: the result of a dry run is the resolved target of every   *)
(* descriptor, in input order, whether or not the target exists and        *)
(* whatever overwrite is.                                                  *)
(***************************************************************************)
C6_AsStated ==
    (Returned /\ dry_run) => created = TargetsIn(Len(files), Idx)

(***************************************************************************)
(* C6 amended: the result of a dry run that returns is, in input order,    *)
(* the resolved target of every descriptor except, when overwrite=False,   *)
(* those whose target exists on disk (as a file or a directory).           *)
(***************************************************************************)
C6_DryRunResult ==
    (Returned /\ dry_run) =>
        created = TargetsIn(Len(files),
                            {j \in Idx : overwrite \/ fs0[T(j)].kind = "none"})

\* A dry run with overwrite=False left out an existing target and listed
\* an absent one.
C6_Witness ==
    /\ Returned /\ dry_run /\ ~overwrite
    /\ Len(created) >= 1
    /\ \E j \in Idx : fs0[T(j)].kind # "none" /\ T(j) \notin Range(created)

(***************************************************************************)
(* C7: the result of a non-dry-run call is, in input order, the resolved   *)
(* target of exactly the descriptors whose write succeeded; a descriptor   *)
(* skipped as existing, with an uncreatable parent or with a failed write  *)
(* adds nothing.                                                           *)
(***************************************************************************)
C7_ResultIsWrittenSubsequence ==
    (Returned /\ ~dry_run) =>
        /\ Len(Outcomes) = Len(files)
        /\ \A j \in Idx : Outcomes[j].target = T(j)
        /\ created = TargetsIn(Len(files),
                               {j \in Idx : Outcomes[j].msg = "Created"})
        /\ \A j \in Idx : Outcomes[j].msg = "Created" => fs[T(j)].kind = "file"

\* A failed write came before a successful one.
C7_Witness ==
    /\ Returned /\ ~dry_run
    /\ \E j, k \in Idx :
          /\ j < k
          /\ Outcomes[j].msg = "WriteFailed"
          /\ Outcomes[k].msg = "Created"
    /\ Len(created) = 1

(***************************************************************************)
(* C8: a descriptor with no usable path (a mapping without 'path', a pair  *)
(* with fewer than two elements) never makes an exception escape the call, *)
(* creates no file and adds nothing to the result.                         *)
(***************************************************************************)
C8_NoUsablePathIsPerEntryFailure ==
    /\ pc # "raised"
    /\ fs[Resolve(base_dir, NonePath)].kind = "none"
    /\ Resolve(base_dir, NonePath) \notin Range(created)

(***************************************************************************)
(* C9: a dry run that returns, followed by a call with dry_run=False, the  *)
(* same overwrite and the same disk: both return the same result.          *)
(***************************************************************************)
C9_DryRunPredictsRealRun ==
    ( /\ Returned /\ calls >= 2
      /\ ~dry_run
      /\ prev.call.state = "returned"
      /\ prev.call.dry_run
      /\ prev.call.overwrite = overwrite
      /\ prev.fs0 = fs0 )
    => created = prev.call.created

(***************************************************************************)
(* C10.  Outcome a descriptor has when nothing but the descriptors with    *)
(* its own target, and the disk the call started from, decide it.          *)
(***************************************************************************)
C10_Solo(j) ==
    IF Blocked(fs0, T(j)) THEN "MkdirFailed"
    ELSE IF fs0[T(j)].kind # "none" /\ ~overwrite THEN "Skipping"
    ELSE IF fs0[T(j)].kind = "dir" THEN "WriteFailed"
    ELSE "Created"

C10_Expected(j) ==
    IF (\E k \in Idx : k < j /\ T(k) = T(j))
       /\ C10_Solo(j) = "Created" /\ ~overwrite
    THEN "Skipping"
    ELSE C10_Solo(j)

First(t) == CHOOSE j \in Idx : T(j) = t /\ \A k \in Idx : T(k) = t => j <= k
Last(t) == CHOOSE j \in Idx : T(j) = t /\ \A k \in Idx : T(k) = t => k <= j

\* Same target: first one wins without overwrite, last one wins with it.
C10_SameTarget ==
    \A t \in Range(created) :
        IF ~overwrite
        THEN Count(created, t) = 1 /\ fs[t] = File(Content(First(t)))
        ELSE /\ Count(created, t) = Cardinality({j \in Idx : T(j) = t})
             /\ fs[t] = File(Content(Last(t)))

(***************************************************************************)
(* C10 as stated: in a non-dry-run call, descriptors with the same target  *)
(* behave as above, and descriptors with different targets do not affect   *)
(* each other's outcome.                                                   *)
(***************************************************************************)
C10_AsStated ==
    (Returned /\ ~dry_run) =>
        /\ C10_SameTarget
        /\ \A j \in Idx : Outcomes[j].msg = C10_Expected(j)

(***************************************************************************)
(* C10 amended: descriptors with the same target behave as above, and a    *)
(* descriptor's outcome is not affected by the earlier descriptors with a  *)
(* different target, unless one of the two targets lies inside the other.  *)
(***************************************************************************)
C10_SameTargetOrdering ==
    (Returned /\ ~dry_run) =>
        /\ C10_SameTarget
        /\ \A j \in Idx :
              (\A k \in Idx : k < j => ~Nested(T(k), T(j)))
              => Outcomes[j].msg = C10_Expected(j)

\* Two descriptors with one target and different contents were both
\* written; the file holds the second content.
C10_Witness ==
    /\ Returned /\ ~dry_run /\ overwrite
    /\ \E j, k \in Idx :
          /\ j < k /\ T(j) = T(k) /\ Content(j) # Content(k)
          /\ Count(created, T(j)) = 2
          /\ fs[T(k)] = File(Content(k))
====
